---- MODULE Spec2Model ----
(***************************************************************************)
(* Model of package dnslookup (main.go): the DnsRecord cache, its six      *)
(* per-kind accessors, GetAllRecords, and the package-level mutex.         *)
(*                                                                         *)
(* Callers are goroutines.  Each statement of an accessor that reads or    *)
(* writes shared memory (a slot of a DnsRecord, the mutex) is one step, so *)
(* that the interleavings of concurrent callers are those of the code.     *)
(* A read or a write of a whole field is one atomic step (the reads are   *)
(* not synchronised in the code; the interleavings modelled are the        *)
(* sequentially consistent ones).  The net.Lookup* functions are external: *)
(* each call returns any of the outcomes listed for it below.  A fatal     *)
(* runtime error or a panic ends the whole process (nothing recovers).     *)
(***************************************************************************)
EXTENDS Naturals, Sequences, FiniteSets

\* ------------------------------------------------------------------ bounds
NumProcs == 2      \* goroutines calling into the package
NumInst == 2       \* DnsRecord instances
MaxCalls == 2      \* calls in sequence by the first of several concurrent goroutines
MaxSeqCalls == 3   \* calls in sequence by a goroutine that runs alone
MaxAddrs == 2      \* longest list the address resolver returns to a lone goroutine
ConcAddrs == 1     \* longest list the address resolver returns to concurrent goroutines
MaxRecs == 2       \* longest list the MX / NS resolvers return

Procs == 1..NumProcs
Inst == 1..NumInst

\* --------------------------------------------------------------- Go values
\* A Go slice: the nil slice and an allocated empty slice are different
\* values (x == nil tells them apart), so a slice is a pair.
Nil == [isnil |-> TRUE, elems |-> <<>>]
Slice(s) == [isnil |-> FALSE, elems |-> s]

\* builtin append(s, xs...): appending nothing to a nil slice yields nil.
append(s, xs) == IF s.isnil /\ xs = <<>> THEN Nil ELSE Slice(s.elems \o xs)

\* builtin make([]T, n): n zero values (0 is the zero value net.MX{} / net.NS{}).
make(n) == Slice([i \in 1..n |-> 0])

\* The lists [1], [1,2], ... up to length n (records are numbered).
Lists(n) == { [i \in 1..k |-> i] : k \in 0..n }

\* ------------------------------------------------------ external resolver
\* Each is the set of (value, err) pairs a call may return.
Failed(v) == [err |-> TRUE, val |-> v]
Ok(v) == [err |-> FALSE, val |-> v]

LookupIP(h) == {Failed(<<>>)} \cup { Ok(s) : s \in h }
LookupCNAME == {Failed(""), Ok(""), Ok("c1.")}
LookupMX == {Failed(<<>>)} \cup { Ok(s) : s \in Lists(MaxRecs) }
LookupNS == {Failed(<<>>)} \cup { Ok(s) : s \in Lists(MaxRecs) }
LookupTXT == {Failed(Nil), Ok(Nil), Ok(Slice(<<>>)), Ok(Slice(<<1>>))}
\* Reverse lookup of address a: the name of a, or no names with an error.
\* The reverse zone is fixed for a run: `zone`, drawn in Init, is the set of
\* addresses that have a PTR record; the others fail on every lookup.
NameOf(a) == 10 + a
LookupAddr(z, a) == IF a \in z THEN {Ok(<<NameOf(a)>>)} ELSE {Failed(<<>>)}

\* ------------------------------------------------------------------- state
VARIABLES
    methods,       \* workload: the methods the callers of this run invoke
    hosts,         \* environment: the address lists a successful LookupIP may return
    zone,          \* environment: the addresses whose reverse lookup succeeds
    targets,       \* workload: the instances the callers of this run call into
    domain,        \* DnsRecord.domain        per instance
    aRecords,      \* DnsRecord.aRecords      per instance
    cnameRecords,  \* DnsRecord.cnameRecords  per instance
    mxRecords,     \* DnsRecord.mxRecords     per instance
    nsRecords,     \* DnsRecord.nsRecords     per instance
    ptrRecords,    \* DnsRecord.ptrRecords    per instance
    txtRecords,    \* DnsRecord.txtRecords    per instance
    mutex,         \* package mutex: 0 unlocked, else the goroutine whose Lock() locked it
    crashed,       \* the process died of a runtime fatal error or panic
    pc,            \* per goroutine: the statement it is at
    recv,          \* per goroutine: the receiver d of the running call
    stack,         \* per goroutine: return addresses of the calls it is inside
    res,           \* per goroutine: the local (value, err) of the last Lookup
    idx,           \* per goroutine: loop index of a range loop
    rng,           \* per goroutine: the slice a range loop iterates (evaluated once)
    tmp,           \* per goroutine: evaluated append(d.ptrRecords, ptr...) not yet stored
    records,       \* per goroutine: the map GetAllRecords builds
    gi,            \* per goroutine: which of its six calls GetAllRecords is at
    ret,           \* per goroutine: the value the last returned call returned
    top,           \* per goroutine: the method the caller invoked
    budget,        \* per goroutine: top-level calls it may still make
    trace,         \* history: resolver calls made by the running top-level call
    calls,         \* history: per goroutine, its completed top-level calls, oldest first
    filled,        \* history: <<instance, kind>> slots that have held a cached value
    seen,          \* history: per goroutine, `filled` when its top-level call started
    invoked,       \* history: method calls made in the running top-level call, in order
    cli            \* the command-line program: its flags, the statement it is at, its output

slots == <<aRecords, cnameRecords, mxRecords, nsRecords, ptrRecords, txtRecords>>
locals == <<res, idx, rng, tmp, records, gi>>
hist == <<trace, calls, filled, seen, invoked>>
load == <<methods, hosts, zone, targets>>
\* What no statement of the package changes.
env == <<load, cli>>
vars == <<env, domain, slots, mutex, crashed, pc, recv, stack, locals, ret, top, budget, hist>>

Kinds == {"A", "CNAME", "MX", "NS", "PTR", "TXT"}
Methods == Kinds \cup {"ALL"}

\* First statement of each method.
Entry(m) ==
    CASE m = "A" -> "A_check"
      [] m = "CNAME" -> "C_check"
      [] m = "MX" -> "M_check"
      [] m = "NS" -> "N_check"
      [] m = "PTR" -> "P_check"
      [] m = "TXT" -> "T_check"
      [] m = "ALL" -> "G_make"

EmptyMap == [k \in {} |-> Nil]

\* NewDnsRecord: only domain is set, every slot has its zero value.
DomainOf(i) == i
NewDnsRecord ==
    /\ domain = [i \in Inst |-> DomainOf(i)]
    /\ aRecords = [i \in Inst |-> Nil]
    /\ cnameRecords = [i \in Inst |-> ""]
    /\ mxRecords = [i \in Inst |-> Nil]
    /\ nsRecords = [i \in Inst |-> Nil]
    /\ ptrRecords = [i \in Inst |-> Nil]
    /\ txtRecords = [i \in Inst |-> Nil]

InitCallers ==
    /\ mutex = 0
    /\ crashed = FALSE
    /\ pc = [p \in Procs |-> "idle"]
    /\ recv = [p \in Procs |-> 1]
    /\ stack = [p \in Procs |-> <<>>]
    /\ res = [p \in Procs |-> Failed(<<>>)]
    /\ idx = [p \in Procs |-> 0]
    /\ rng = [p \in Procs |-> <<>>]
    /\ tmp = [p \in Procs |-> Nil]
    /\ records = [p \in Procs |-> EmptyMap]
    /\ gi = [p \in Procs |-> 0]
    /\ ret = [p \in Procs |-> Nil]
    /\ top = [p \in Procs |-> "none"]
    /\ trace = [p \in Procs |-> <<>>]
    /\ calls = [p \in Procs |-> <<>>]
    /\ filled = {}
    /\ seen = [p \in Procs |-> {}]
    /\ invoked = [p \in Procs |-> <<>>]

\* A workload: the methods a run's callers invoke, how many calls each makes,
\* and the instances they call into.
Load(ms, b, is) == [methods |-> ms, budget |-> b, targets |-> is]
First(n, m) == [p \in Procs |-> IF p = 1 THEN n ELSE m]

\* Several goroutines share the instances: each makes one call of any
\* per-kind accessor, or all call the same accessor and the first calls it
\* again, or one of them calls GetAllRecords.
ConcLoads ==
    {Load(Kinds, First(1, 1), Inst)}
        \cup { Load({m}, First(MaxCalls, 1), {1}) : m \in Kinds }
        \cup {Load({"ALL"}, First(1, 0), {1})}

\* One goroutine makes its calls in sequence: per-kind accessors, or
\* GetAllRecords on the fresh instance.
SeqLoads ==
    {Load(Kinds, First(MaxSeqCalls, 0), {1}), Load(Kinds, First(MaxSeqCalls - 1, 0), Inst),
     Load({"ALL"}, First(1, 0), {1})}

\* No command-line program: the callers are goroutines of a program that
\* imports the package.
NoCli == [pc |-> "none", domain |-> "", searchType |-> "", out |-> "nothing"]

Init ==
    /\ NewDnsRecord
    /\ cli = NoCli
    /\ InitCallers
    /\ \E w \in ConcLoads : methods = w.methods /\ budget = w.budget /\ targets = w.targets
    /\ hosts = Lists(ConcAddrs)
    /\ zone \in SUBSET (1..ConcAddrs)

InitSeq ==
    /\ NewDnsRecord
    /\ cli = NoCli
    /\ InitCallers
    /\ \E w \in SeqLoads : methods = w.methods /\ budget = w.budget /\ targets = w.targets
    /\ hosts = Lists(MaxAddrs)
    /\ zone \in SUBSET (1..MaxAddrs)

\* ------------------------------------------------------- calls and returns
\* Method m is called from `by`: another method, or the caller of the package.
Invokes(by, m) == [by |-> by, method |-> m]
Invoked(p, by, m) == invoked' = [invoked EXCEPT ![p] = Append(@, Invokes(by, m))]

\* A caller invokes method m on instance i.
Call(p) ==
    /\ ~crashed
    /\ pc[p] = "idle"
    /\ budget[p] > 0
    /\ \E m \in methods, i \in targets :
        /\ pc' = [pc EXCEPT ![p] = Entry(m)]
        /\ recv' = [recv EXCEPT ![p] = i]
        /\ top' = [top EXCEPT ![p] = m]
        /\ invoked' = [invoked EXCEPT ![p] = <<Invokes("caller", m)>>]
    /\ budget' = [budget EXCEPT ![p] = @ - 1]
    /\ stack' = [stack EXCEPT ![p] = <<>>]
    /\ trace' = [trace EXCEPT ![p] = <<>>]
    /\ seen' = [seen EXCEPT ![p] = filled]
    /\ UNCHANGED <<env, domain, slots, mutex, crashed, locals, ret, calls, filled>>

\* `return v`: back to the calling method, or to the caller of the package.
Return(p, v) ==
    /\ ret' = [ret EXCEPT ![p] = v]
    /\ IF stack[p] = <<>>
       THEN /\ pc' = [pc EXCEPT ![p] = "idle"]
            /\ calls' = [calls EXCEPT ![p] = Append(@,
                            [op |-> top[p], inst |-> recv[p], trace |-> trace[p],
                             seen |-> seen[p], invoked |-> invoked[p], ret |-> v])]
            /\ UNCHANGED stack
       ELSE /\ pc' = [pc EXCEPT ![p] = Head(stack[p])]
            /\ stack' = [stack EXCEPT ![p] = Tail(stack[p])]
            /\ UNCHANGED calls

\* A resolver call of kind k with argument a returned r.
Logged(p, k, a, r) ==
    trace' = [trace EXCEPT ![p] = Append(@, [kind |-> k, arg |-> a, err |-> r.err, val |-> r.val])]

\* ------------------------------------------------------------------- mutex
Goto(p, l) == pc' = [pc EXCEPT ![p] = l]
\* Goroutine p is at statement l of a running process.
At(p, l) == ~crashed /\ pc[p] = l

\* mutex.Lock(): blocks while the mutex is locked.
Lock(p) ==
    /\ mutex = 0
    /\ mutex' = p
    /\ UNCHANGED crashed

\* mutex.Unlock(), then statement l.  A sync.Mutex has no owner: Unlock
\* unlocks it whoever locked it, and unlocking an unlocked mutex is the fatal
\* error "sync: unlock of unlocked mutex", which ends the process there.
Unlock(p, l) ==
    IF mutex = 0
    THEN crashed' = TRUE /\ UNCHANGED <<mutex, pc>>
    ELSE mutex' = 0 /\ Goto(p, l) /\ UNCHANGED crashed

\* What a step leaves alone, by the kind of statement.
OnlyPc == <<env, domain, slots, mutex, crashed, recv, stack, locals, ret, top, budget, hist>>
LookupFrame == <<env, domain, slots, mutex, crashed, recv, stack, idx, rng, tmp, records, gi,
                 ret, top, budget, calls, filled, seen, invoked>>
MutexFrame == <<env, domain, slots, recv, stack, locals, ret, top, budget, hist>>
RetFrame == <<env, domain, slots, mutex, crashed, recv, locals, top, budget, trace, filled, seen,
              invoked>>
WriteFrame == <<env, domain, mutex, recv, stack, res, rng, tmp, records, gi, ret, top, budget,
                trace, calls, seen, invoked>>

\* History: slot k of instance i holds v after a write.
Fill(i, k, cached) == filled' = IF cached THEN filled \cup {<<i, k>>} ELSE filled

\* ------------------------------------------------------------- GetARecords
\* main.go:63  if d.aRecords == nil
A_check(p) ==
    /\ At(p, "A_check")
    /\ Goto(p, IF aRecords[recv[p]].isnil THEN "A_lookup" ELSE "A_ret")
    /\ UNCHANGED OnlyPc

\* Variant of main.go:64-65 that resolves again when the resolution failed.
A_lookup_Retry(p) ==
    /\ At(p, "A_lookup")
    /\ \E r \in LookupIP(hosts) :
        /\ res' = [res EXCEPT ![p] = r]
        /\ Logged(p, "A", domain[recv[p]], r)
        /\ Goto(p, IF r.err THEN "A_lookup" ELSE "A_lock")
    /\ UNCHANGED LookupFrame

\* main.go:64-65  aRecords, err := net.LookupIP(d.domain); if err == nil
A_lookup(p) ==
    /\ At(p, "A_lookup")
    /\ \E r \in LookupIP(hosts) :
        /\ res' = [res EXCEPT ![p] = r]
        /\ Logged(p, "A", domain[recv[p]], r)
        /\ Goto(p, IF r.err THEN "A_ret" ELSE "A_lock")
    /\ UNCHANGED LookupFrame

\* main.go:66  mutex.Lock()
A_lock(p) ==
    /\ At(p, "A_lock")
    /\ Lock(p)
    /\ Goto(p, "A_write")
    /\ UNCHANGED MutexFrame

\* Variant of main.go:67 in which the address slot is one package-level
\* variable, like the mutex, instead of a field of d.
A_write_Shared(p) ==
    /\ At(p, "A_write")
    /\ aRecords' = [i \in Inst |-> append(aRecords[recv[p]], res[p].val)]
    /\ Fill(recv[p], "A", ~aRecords'[recv[p]].isnil)
    /\ Goto(p, "A_unlock")
    /\ UNCHANGED <<cnameRecords, mxRecords, nsRecords, ptrRecords, txtRecords, crashed, idx>>
    /\ UNCHANGED WriteFrame

\* main.go:67  d.aRecords = append(d.aRecords, aRecords...)
A_write(p) ==
    /\ At(p, "A_write")
    /\ aRecords' = [aRecords EXCEPT ![recv[p]] = append(@, res[p].val)]
    /\ Fill(recv[p], "A", ~aRecords'[recv[p]].isnil)
    /\ Goto(p, "A_unlock")
    /\ UNCHANGED <<cnameRecords, mxRecords, nsRecords, ptrRecords, txtRecords, crashed, idx>>
    /\ UNCHANGED WriteFrame

\* main.go:68  mutex.Unlock()
A_unlock(p) ==
    /\ At(p, "A_unlock")
    /\ Unlock(p, "A_ret")
    /\ UNCHANGED MutexFrame

\* main.go:70, 72  return d.aRecords
A_ret(p) ==
    /\ At(p, "A_ret")
    /\ Return(p, aRecords[recv[p]])
    /\ UNCHANGED RetFrame

GetARecords(p) ==
    \/ A_check(p)
    \/ A_lookup(p)
    \/ A_lock(p)
    \/ A_write(p)
    \/ A_unlock(p)
    \/ A_ret(p)

\* --------------------------------------------------------- GetCnameRecords
\* main.go:87  if d.cnameRecords == ""
C_check(p) ==
    /\ At(p, "C_check")
    /\ Goto(p, IF cnameRecords[recv[p]] = "" THEN "C_lookup" ELSE "C_ret")
    /\ UNCHANGED OnlyPc

\* main.go:88-89  on an error the Lock of line 90 is skipped, the Unlock of 93 is not
C_lookup(p) ==
    /\ At(p, "C_lookup")
    /\ \E r \in LookupCNAME :
        /\ res' = [res EXCEPT ![p] = r]
        /\ Logged(p, "CNAME", domain[recv[p]], r)
        /\ Goto(p, IF r.err THEN "C_unlock" ELSE "C_lock")
    /\ UNCHANGED LookupFrame

\* main.go:90
C_lock(p) ==
    /\ At(p, "C_lock")
    /\ Lock(p)
    /\ Goto(p, "C_write")
    /\ UNCHANGED MutexFrame

\* main.go:91  d.cnameRecords = cnameRecords
C_write(p) ==
    /\ At(p, "C_write")
    /\ cnameRecords' = [cnameRecords EXCEPT ![recv[p]] = res[p].val]
    /\ Fill(recv[p], "CNAME", res[p].val # "")
    /\ Goto(p, "C_unlock")
    /\ UNCHANGED <<aRecords, mxRecords, nsRecords, ptrRecords, txtRecords, crashed, idx>>
    /\ UNCHANGED WriteFrame

\* main.go:93  mutex.Unlock(), outside the `if err == nil` block
C_unlock(p) ==
    /\ At(p, "C_unlock")
    /\ Unlock(p, "C_ret")
    /\ UNCHANGED MutexFrame

\* main.go:94, 96
C_ret(p) ==
    /\ At(p, "C_ret")
    /\ Return(p, cnameRecords[recv[p]])
    /\ UNCHANGED RetFrame

GetCnameRecords(p) ==
    \/ C_check(p)
    \/ C_lookup(p)
    \/ C_lock(p)
    \/ C_write(p)
    \/ C_unlock(p)
    \/ C_ret(p)

\* ------------------------------------------------------------ GetMxRecords
\* d.x[i] = v on the slice s that d.x holds now: an index past its length
\* is a run-time panic (index out of range), which ends the process there.
InRange(s, i) == ~s.isnil /\ i <= Len(s.elems)
SetAt(s, i, v) == IF InRange(s, i) THEN Slice([s.elems EXCEPT ![i] = v]) ELSE s

\* main.go:111
M_check(p) ==
    /\ At(p, "M_check")
    /\ Goto(p, IF mxRecords[recv[p]].isnil THEN "M_lookup" ELSE "M_ret")
    /\ UNCHANGED OnlyPc

\* main.go:112-113
M_lookup(p) ==
    /\ At(p, "M_lookup")
    /\ \E r \in LookupMX :
        /\ res' = [res EXCEPT ![p] = r]
        /\ Logged(p, "MX", domain[recv[p]], r)
        /\ Goto(p, IF r.err THEN "M_ret" ELSE "M_lock")
    /\ UNCHANGED LookupFrame

\* main.go:114
M_lock(p) ==
    /\ At(p, "M_lock")
    /\ Lock(p)
    /\ Goto(p, "M_make")
    /\ UNCHANGED MutexFrame

\* main.go:115  d.mxRecords = make([]net.MX, len(mxRecords))
M_make(p) ==
    /\ At(p, "M_make")
    /\ mxRecords' = [mxRecords EXCEPT ![recv[p]] = make(Len(res[p].val))]
    /\ Fill(recv[p], "MX", TRUE)
    /\ idx' = [idx EXCEPT ![p] = 1]
    /\ Goto(p, IF Len(res[p].val) = 0 THEN "M_unlock" ELSE "M_fill")
    /\ UNCHANGED <<aRecords, cnameRecords, nsRecords, ptrRecords, txtRecords, crashed>>
    /\ UNCHANGED WriteFrame

\* main.go:116-118  one iteration: d.mxRecords[i] = *record
M_fill(p) ==
    /\ At(p, "M_fill")
    /\ mxRecords' = [mxRecords EXCEPT ![recv[p]] = SetAt(@, idx[p], res[p].val[idx[p]])]
    /\ IF InRange(mxRecords[recv[p]], idx[p])
       THEN /\ idx' = [idx EXCEPT ![p] = @ + 1]
            /\ Goto(p, IF idx[p] = Len(res[p].val) THEN "M_unlock" ELSE "M_fill")
            /\ UNCHANGED crashed
       ELSE /\ crashed' = TRUE
            /\ UNCHANGED <<idx, pc>>
    /\ UNCHANGED <<aRecords, cnameRecords, nsRecords, ptrRecords, txtRecords, filled>>
    /\ UNCHANGED WriteFrame

\* main.go:119
M_unlock(p) ==
    /\ At(p, "M_unlock")
    /\ Unlock(p, "M_ret")
    /\ UNCHANGED MutexFrame

\* main.go:121, 123
M_ret(p) ==
    /\ At(p, "M_ret")
    /\ Return(p, mxRecords[recv[p]])
    /\ UNCHANGED RetFrame

GetMxRecords(p) ==
    \/ M_check(p)
    \/ M_lookup(p)
    \/ M_lock(p)
    \/ M_make(p)
    \/ M_fill(p)
    \/ M_unlock(p)
    \/ M_ret(p)

\* ------------------------------------------------------------ GetNsRecords
\* main.go:138
N_check(p) ==
    /\ At(p, "N_check")
    /\ Goto(p, IF nsRecords[recv[p]].isnil THEN "N_lookup" ELSE "N_ret")
    /\ UNCHANGED OnlyPc

\* main.go:139-140
N_lookup(p) ==
    /\ At(p, "N_lookup")
    /\ \E r \in LookupNS :
        /\ res' = [res EXCEPT ![p] = r]
        /\ Logged(p, "NS", domain[recv[p]], r)
        /\ Goto(p, IF r.err THEN "N_ret" ELSE "N_lock")
    /\ UNCHANGED LookupFrame

\* main.go:141
N_lock(p) ==
    /\ At(p, "N_lock")
    /\ Lock(p)
    /\ Goto(p, "N_make")
    /\ UNCHANGED MutexFrame

\* main.go:142  d.nsRecords = make([]net.NS, len(nsRecords))
N_make(p) ==
    /\ At(p, "N_make")
    /\ nsRecords' = [nsRecords EXCEPT ![recv[p]] = make(Len(res[p].val))]
    /\ Fill(recv[p], "NS", TRUE)
    /\ idx' = [idx EXCEPT ![p] = 1]
    /\ Goto(p, IF Len(res[p].val) = 0 THEN "N_unlock" ELSE "N_fill")
    /\ UNCHANGED <<aRecords, cnameRecords, mxRecords, ptrRecords, txtRecords, crashed>>
    /\ UNCHANGED WriteFrame

\* main.go:143-145  one iteration: d.nsRecords[i] = *record
N_fill(p) ==
    /\ At(p, "N_fill")
    /\ nsRecords' = [nsRecords EXCEPT ![recv[p]] = SetAt(@, idx[p], res[p].val[idx[p]])]
    /\ IF InRange(nsRecords[recv[p]], idx[p])
       THEN /\ idx' = [idx EXCEPT ![p] = @ + 1]
            /\ Goto(p, IF idx[p] = Len(res[p].val) THEN "N_unlock" ELSE "N_fill")
            /\ UNCHANGED crashed
       ELSE /\ crashed' = TRUE
            /\ UNCHANGED <<idx, pc>>
    /\ UNCHANGED <<aRecords, cnameRecords, mxRecords, ptrRecords, txtRecords, filled>>
    /\ UNCHANGED WriteFrame

\* main.go:146
N_unlock(p) ==
    /\ At(p, "N_unlock")
    /\ Unlock(p, "N_ret")
    /\ UNCHANGED MutexFrame

\* main.go:149
N_ret(p) ==
    /\ At(p, "N_ret")
    /\ Return(p, nsRecords[recv[p]])
    /\ UNCHANGED RetFrame

GetNsRecords(p) ==
    \/ N_check(p)
    \/ N_lookup(p)
    \/ N_lock(p)
    \/ N_make(p)
    \/ N_fill(p)
    \/ N_unlock(p)
    \/ N_ret(p)

\* ----------------------------------------------------------- GetTxtRecords
\* main.go:190
T_check(p) ==
    /\ At(p, "T_check")
    /\ Goto(p, IF txtRecords[recv[p]].isnil THEN "T_lookup" ELSE "T_ret")
    /\ UNCHANGED OnlyPc

\* main.go:191-192  on an error the Lock of line 193 is skipped, the Unlock of 196 is not
T_lookup(p) ==
    /\ At(p, "T_lookup")
    /\ \E r \in LookupTXT :
        /\ res' = [res EXCEPT ![p] = r]
        /\ Logged(p, "TXT", domain[recv[p]], r)
        /\ Goto(p, IF r.err THEN "T_unlock" ELSE "T_lock")
    /\ UNCHANGED LookupFrame

\* main.go:193
T_lock(p) ==
    /\ At(p, "T_lock")
    /\ Lock(p)
    /\ Goto(p, "T_write")
    /\ UNCHANGED MutexFrame

\* main.go:194  d.txtRecords = txtRecords
T_write(p) ==
    /\ At(p, "T_write")
    /\ txtRecords' = [txtRecords EXCEPT ![recv[p]] = res[p].val]
    /\ Fill(recv[p], "TXT", ~res[p].val.isnil)
    /\ Goto(p, "T_unlock")
    /\ UNCHANGED <<aRecords, cnameRecords, mxRecords, nsRecords, ptrRecords, crashed, idx>>
    /\ UNCHANGED WriteFrame

\* main.go:196  mutex.Unlock(), outside the `if err == nil` block
T_unlock(p) ==
    /\ At(p, "T_unlock")
    /\ Unlock(p, "T_ret")
    /\ UNCHANGED MutexFrame

\* main.go:198
T_ret(p) ==
    /\ At(p, "T_ret")
    /\ Return(p, txtRecords[recv[p]])
    /\ UNCHANGED RetFrame

GetTxtRecords(p) ==
    \/ T_check(p)
    \/ T_lookup(p)
    \/ T_lock(p)
    \/ T_write(p)
    \/ T_unlock(p)
    \/ T_ret(p)

\* ----------------------------------------------------------- GetPtrRecords
\* net.IP.String(): the textual form of address v, the argument of LookupAddr.
String(v) == [text |-> v]

\* `for _, v := range d.aRecords`: the slice is read once, when the loop starts.
PtrRange(p, here, body, after) ==
    /\ At(p, here)
    /\ rng' = [rng EXCEPT ![p] = aRecords[recv[p]].elems]
    /\ idx' = [idx EXCEPT ![p] = 1]
    /\ Goto(p, IF aRecords[recv[p]].elems = <<>> THEN after ELSE body)
    /\ UNCHANGED <<env, domain, slots, mutex, crashed, recv, stack, res, tmp, records, gi,
                   ret, top, budget, hist>>

\* ptr, _ := net.LookupAddr(v.String()), and the evaluation of
\* append(d.ptrRecords, ptr...); the error is discarded.  No lock is taken.
PtrLook(p, here, store) ==
    /\ At(p, here)
    /\ \E r \in LookupAddr(zone, rng[p][idx[p]]) :
        /\ res' = [res EXCEPT ![p] = r]
        /\ Logged(p, "PTR", String(rng[p][idx[p]]), r)
        /\ tmp' = [tmp EXCEPT ![p] = append(ptrRecords[recv[p]], r.val)]
    /\ Goto(p, store)
    /\ UNCHANGED <<env, domain, slots, mutex, crashed, recv, stack, idx, rng, records, gi,
                   ret, top, budget, calls, filled, seen, invoked>>

\* d.ptrRecords = <the appended slice>, and the step to the next address.
PtrStore(p, here, body, after) ==
    /\ At(p, here)
    /\ ptrRecords' = [ptrRecords EXCEPT ![recv[p]] = tmp[p]]
    /\ Fill(recv[p], "PTR", ~tmp[p].isnil)
    /\ idx' = [idx EXCEPT ![p] = @ + 1]
    /\ Goto(p, IF idx[p] = Len(rng[p]) THEN after ELSE body)
    /\ UNCHANGED <<aRecords, cnameRecords, mxRecords, nsRecords, txtRecords, crashed>>
    /\ UNCHANGED WriteFrame

\* Variant of main.go:164 without the test: the lookups are always made.
P_check_Always(p) ==
    /\ At(p, "P_check")
    /\ Goto(p, "P_checkA")
    /\ UNCHANGED OnlyPc

\* main.go:164  if d.ptrRecords == nil
P_check(p) ==
    /\ At(p, "P_check")
    /\ Goto(p, IF ptrRecords[recv[p]].isnil THEN "P_checkA" ELSE "P_ret")
    /\ UNCHANGED OnlyPc

\* Variant of main.go:165-166 without the d.GetARecords() call.
P_checkA_NoFetch(p) ==
    /\ At(p, "P_checkA")
    /\ Goto(p, IF aRecords[recv[p]].isnil THEN "P_range1" ELSE "P_range2")
    /\ UNCHANGED OnlyPc

\* main.go:165-166  if d.aRecords == nil { d.GetARecords() ...
P_checkA(p) ==
    /\ At(p, "P_checkA")
    /\ IF aRecords[recv[p]].isnil
       THEN /\ stack' = [stack EXCEPT ![p] = <<"P_range1">> \o @]
            /\ Invoked(p, "PTR", "A")
            /\ Goto(p, Entry("A"))
       ELSE /\ Goto(p, "P_range2")
            /\ UNCHANGED <<stack, invoked>>
    /\ UNCHANGED <<env, domain, slots, mutex, crashed, recv, locals, ret, top, budget,
                   trace, calls, filled, seen>>

\* main.go:167  the loop inside the `if d.aRecords == nil` block
P_range1(p) == PtrRange(p, "P_range1", "P_look1", "P_range2")
\* main.go:168
P_look1(p) == PtrLook(p, "P_look1", "P_store1")
\* main.go:169
P_store1(p) == PtrStore(p, "P_store1", "P_look1", "P_range2")
\* main.go:172  the loop after the block, run in either case
P_range2(p) == PtrRange(p, "P_range2", "P_look2", "P_ret")
\* main.go:173
P_look2(p) == PtrLook(p, "P_look2", "P_store2")
\* main.go:174
P_store2(p) == PtrStore(p, "P_store2", "P_look2", "P_ret")

\* main.go:177
P_ret(p) ==
    /\ At(p, "P_ret")
    /\ Return(p, ptrRecords[recv[p]])
    /\ UNCHANGED RetFrame

GetPtrRecords(p) ==
    \/ P_check(p)
    \/ P_checkA(p)
    \/ P_range1(p)
    \/ P_look1(p)
    \/ P_store1(p)
    \/ P_range2(p)
    \/ P_look2(p)
    \/ P_store2(p)
    \/ P_ret(p)

\* ----------------------------------------------------------- GetAllRecords
\* The six assignments of main.go:214-219, in order: the key and the accessor.
AllKeys == <<"A records", "CNAME records", "MX records", "NS records", "PTR records",
             "TXT records">>
\* Variant with the calls of lines 216 and 217 exchanged.
AllOrder_NsBeforeMx == <<"A", "CNAME", "NS", "MX", "PTR", "TXT">>
AllOrder == <<"A", "CNAME", "MX", "NS", "PTR", "TXT">>

\* records[k] = v
Put(m, k, v) == [x \in DOMAIN m \cup {k} |-> IF x = k THEN v ELSE m[x]]

\* main.go:212  var records = make(map[string]interface{})
G_make(p) ==
    /\ At(p, "G_make")
    /\ records' = [records EXCEPT ![p] = EmptyMap]
    /\ gi' = [gi EXCEPT ![p] = 1]
    /\ Goto(p, "G_call")
    /\ UNCHANGED <<env, domain, slots, mutex, crashed, recv, stack, res, idx, rng, tmp,
                   ret, top, budget, hist>>

\* main.go:214-219  the call on the right-hand side of the gi-th assignment
G_call(p) ==
    /\ At(p, "G_call")
    /\ stack' = [stack EXCEPT ![p] = <<"G_store">> \o @]
    /\ Invoked(p, "ALL", AllOrder[gi[p]])
    /\ Goto(p, Entry(AllOrder[gi[p]]))
    /\ UNCHANGED <<env, domain, slots, mutex, crashed, recv, locals, ret, top, budget,
                   trace, calls, filled, seen>>

\* main.go:214-219  the gi-th assignment stores what the call returned
G_store(p) ==
    /\ At(p, "G_store")
    /\ records' = [records EXCEPT ![p] = Put(@, AllKeys[gi[p]], ret[p])]
    /\ gi' = [gi EXCEPT ![p] = @ + 1]
    /\ Goto(p, IF gi[p] = Len(AllOrder) THEN "G_ret" ELSE "G_call")
    /\ UNCHANGED <<env, domain, slots, mutex, crashed, recv, stack, res, idx, rng, tmp,
                   ret, top, budget, hist>>

\* main.go:221  return records
G_ret(p) ==
    /\ At(p, "G_ret")
    /\ Return(p, records[p])
    /\ UNCHANGED RetFrame

GetAllRecords(p) ==
    \/ G_make(p)
    \/ G_call(p)
    \/ G_store(p)
    \/ G_ret(p)

Next ==
    \E p \in Procs :
        \/ Call(p)
        \/ GetARecords(p)
        \/ GetCnameRecords(p)
        \/ GetMxRecords(p)
        \/ GetNsRecords(p)
        \/ GetPtrRecords(p)
        \/ GetTxtRecords(p)
        \/ GetAllRecords(p)

Spec == Init /\ [][Next]_vars
SpecSeq == InitSeq /\ [][Next]_vars

\* ------------------------------------------------- the command-line program
\* part_000:51  searchOptions
searchOptions == <<"a", "all", "cname", "mx", "ns", "ptr", "txt">>

\* part_000:53-63  found := true; for _, v := range searchOptions { if
\* searchType != v { found = false } else { return true } }; return found
RECURSIVE Scan(_, _, _)
Scan(searchType, options, found) ==
    IF options = <<>> THEN found
    ELSE IF searchType # Head(options) THEN Scan(searchType, Tail(options), FALSE)
    ELSE TRUE
isValidSearchType(searchType) == Scan(searchType, searchOptions, TRUE)

\* part_000:29-43  the method each case of the switch calls
MethodOf(searchType) ==
    CASE searchType = "a" -> "A"
      [] searchType = "all" -> "ALL"
      [] searchType = "cname" -> "CNAME"
      [] searchType = "mx" -> "MX"
      [] searchType = "ns" -> "NS"
      [] searchType = "ptr" -> "PTR"
      [] searchType = "txt" -> "TXT"
      [] OTHER -> "none"

\* The values of the flags: a flag that is not given has its default "".
DomainArgs == {"", "example.net"}
SearchArgs == { searchOptions[n] : n \in DOMAIN searchOptions } \cup {"", "A", "soa"}

\* part_000:12-21  the flags are parsed and recorder := NewDnsRecord(domain)
InitCli ==
    /\ \E d \in DomainArgs, s \in SearchArgs :
        /\ cli = [pc |-> "check", domain |-> d, searchType |-> s, out |-> "nothing"]
        /\ domain = [i \in Inst |-> IF i = 1 THEN d ELSE DomainOf(i)]
    /\ aRecords = [i \in Inst |-> Nil]
    /\ cnameRecords = [i \in Inst |-> ""]
    /\ mxRecords = [i \in Inst |-> Nil]
    /\ nsRecords = [i \in Inst |-> Nil]
    /\ ptrRecords = [i \in Inst |-> Nil]
    /\ txtRecords = [i \in Inst |-> Nil]
    /\ InitCallers
    /\ methods = {}
    /\ budget = [p \in Procs |-> 0]
    /\ targets = {1}
    /\ hosts = Lists(ConcAddrs)
    /\ zone \in SUBSET (1..ConcAddrs)

CliFrame == <<load, domain, slots, mutex, crashed, locals, ret, budget, calls, filled>>

\* part_000:24-26  if !isValidSearchType(searchType) { fmt.Println("error: ...
\* usage: ..."); return }
Main_check ==
    /\ cli.pc = "check"
    /\ cli' = IF ~isValidSearchType(cli.searchType)
              THEN [cli EXCEPT !.pc = "exit", !.out = "usage"]
              ELSE [cli EXCEPT !.pc = "switch"]
    /\ UNCHANGED <<CliFrame, pc, recv, top, stack, trace, seen, invoked>>

\* part_000:29-43  switch searchType: the call recorder.Get...Records() of
\* the matching case, made by the main goroutine
Main_switch ==
    /\ cli.pc = "switch"
    /\ IF MethodOf(cli.searchType) = "none"
       THEN /\ cli' = [cli EXCEPT !.pc = "exit"]
            /\ UNCHANGED <<pc, recv, top, stack, trace, seen, invoked>>
       ELSE /\ cli' = [cli EXCEPT !.pc = "print"]
            /\ pc' = [pc EXCEPT ![1] = Entry(MethodOf(cli.searchType))]
            /\ recv' = [recv EXCEPT ![1] = 1]
            /\ top' = [top EXCEPT ![1] = MethodOf(cli.searchType)]
            /\ stack' = [stack EXCEPT ![1] = <<>>]
            /\ trace' = [trace EXCEPT ![1] = <<>>]
            /\ seen' = [seen EXCEPT ![1] = filled]
            /\ invoked' = [invoked EXCEPT ![1] = <<Invokes("main", MethodOf(cli.searchType))>>]
    /\ UNCHANGED CliFrame

\* part_000:31-43  fmt.Println(<what the call returned>), then main returns
Main_print ==
    /\ cli.pc = "print"
    /\ At(1, "idle")
    /\ cli' = [cli EXCEPT !.pc = "exit", !.out = "result"]
    /\ UNCHANGED <<CliFrame, pc, recv, top, stack, trace, seen, invoked>>

main ==
    \/ Main_check
    \/ Main_switch
    \/ Main_print

NextCli ==
    \/ main
    \/ \E p \in Procs :
        \/ GetARecords(p)
        \/ GetCnameRecords(p)
        \/ GetMxRecords(p)
        \/ GetNsRecords(p)
        \/ GetPtrRecords(p)
        \/ GetTxtRecords(p)
        \/ GetAllRecords(p)

SpecCli == InitCli /\ [][NextCli]_vars

\* ================================================================== claims
PerKind == {"A", "CNAME", "MX", "NS", "TXT"}

\* The field of DnsRecord that holds kind k.
Slot(k) ==
    CASE k = "A" -> aRecords
      [] k = "CNAME" -> cnameRecords
      [] k = "MX" -> mxRecords
      [] k = "NS" -> nsRecords
      [] k = "PTR" -> ptrRecords
      [] k = "TXT" -> txtRecords

\* A slot value (or a returned value) of kind k is the not-yet-cached one.
NotCached(k, v) == IF k = "CNAME" THEN v = "" ELSE v.isnil

\* A slot value (or a returned value) v of kind k is the resolver's result r.
IsResult(k, v, r) == IF k \in {"CNAME", "TXT"} THEN v = r ELSE v.elems = r

\* The resolver calls of kind k in trace t, in order.
Resolutions(t, k) == SelectSeq(t, LAMBDA e : e.kind = k)
Succeeded(t, k) == \E n \in DOMAIN t : t[n].kind = k /\ ~t[n].err
FailedOnce(t, k) == Len(t) = 1 /\ t[1].kind = k /\ t[1].err

RECURSIVE Flatten(_)
Flatten(ss) == IF ss = <<>> THEN <<>> ELSE Head(ss) \o Flatten(Tail(ss))
Range(f) == { f[x] : x \in DOMAIN f }

\* Goroutine p is about to return from a GetPtrRecords call that its caller
\* made while the pointer slot had never been cached.
FirstPtrReturns(p) ==
    /\ pc[p] = "P_ret"
    /\ top[p] = "PTR"
    /\ <<recv[p], "PTR">> \notin seen[p]

\* C1: a caller that calls a per-kind accessor twice in sequence, the resolver
\* succeeding on the first call, makes no resolver call in the second call,
\* which returns what the first returned.
C1_SecondCallIsCacheHit ==
    \A p \in Procs : \A n \in DOMAIN calls[p] :
        (n + 1 \in DOMAIN calls[p]) =>
            LET c == calls[p][n]
                d == calls[p][n + 1]
            IN  (/\ c.op \in PerKind
                 /\ d.op = c.op
                 /\ d.inst = c.inst
                 /\ Succeeded(c.trace, c.op))
                    => (d.trace = <<>> /\ d.ret = c.ret)

\* C2: when the resolver of a per-kind accessor fails, the program is not
\* aborted, the call returns the empty slot value, and the next call of the
\* same accessor calls the resolver again and returns its result if it succeeds.
C2_FailureIsSilentAndRetried ==
    \A p \in Procs :
        /\ (top[p] \in PerKind /\ FailedOnce(trace[p], top[p])) => ~crashed
        /\ \A n \in DOMAIN calls[p] :
            LET c == calls[p][n] IN
            (c.op \in PerKind /\ FailedOnce(c.trace, c.op)) =>
                /\ NotCached(c.op, c.ret)
                /\ (n + 1 \in DOMAIN calls[p] /\ calls[p][n + 1].op = c.op
                        /\ calls[p][n + 1].inst = c.inst) =>
                       LET d == calls[p][n + 1] IN
                       /\ d.trace # <<>>
                       /\ ~d.trace[1].err => IsResult(c.op, d.ret, d.trace[1].val)

\* C3: GetAllRecords always returns, and what it returns has exactly the six
\* keys, whichever resolver calls fail.
C3_AllSixKeys ==
    \A p \in Procs :
        top[p] = "ALL" =>
            /\ ~crashed
            /\ pc[p] = "idle" => DOMAIN ret[p] = Range(AllKeys)

\* C4: a first GetPtrRecords call issues exactly one reverse lookup per
\* address held in the address slot, and with no address it returns an
\* empty sequence.
C4_OneReverseLookupPerAddress ==
    \A p \in Procs :
        FirstPtrReturns(p) =>
            LET a == aRecords[recv[p]].elems IN
            /\ Len(Resolutions(trace[p], "PTR")) = Len(a)
            /\ a = <<>> => ptrRecords[recv[p]].elems = <<>>

\* C5: after a first GetPtrRecords call the pointer slot is the
\* concatenation, in address order, of the reverse-lookup results of the
\* addresses of the address slot, each address looked up once.
C5_PtrIsConcatenation ==
    \A p \in Procs :
        FirstPtrReturns(p) =>
            LET a == aRecords[recv[p]].elems
                r == Resolutions(trace[p], "PTR")
            IN  /\ [n \in DOMAIN r |-> r[n].arg] = [n \in DOMAIN a |-> String(a[n])]
                /\ ptrRecords[recv[p]].elems = Flatten([n \in DOMAIN r |-> r[n].val])

\* C6: a value an accessor returns under concurrent callers is never a
\* partially written one: no MX or NS sequence with an element still unset,
\* no PTR sequence with fewer names than the held addresses resolve to.
C6_NoPartialValueReturned ==
    \A p \in Procs :
        /\ pc[p] = "M_ret" => \A n \in DOMAIN mxRecords[recv[p]].elems :
                                  mxRecords[recv[p]].elems[n] # 0
        /\ pc[p] = "N_ret" => \A n \in DOMAIN nsRecords[recv[p]].elems :
                                  nsRecords[recv[p]].elems[n] # 0
        /\ (pc[p] = "P_ret" /\ ~ptrRecords[recv[p]].isnil) =>
               LET a == aRecords[recv[p]].elems IN
               Len(ptrRecords[recv[p]].elems) >= Cardinality({n \in DOMAIN a : a[n] \in zone})

\* C7: a goroutine about to write a slot holds the mutex, and at most one
\* goroutine is at a slot-writing statement.
WriteLabels == {"A_write", "C_write", "M_make", "M_fill", "N_make", "N_fill",
                "P_store1", "P_store2", "T_write"}
C7_WritesHoldTheGuard ==
    /\ \A p \in Procs : (~crashed /\ pc[p] \in WriteLabels) => mutex = p
    /\ ~crashed => Cardinality({p \in Procs : pc[p] \in WriteLabels}) <= 1

\* C8: a call that starts after a slot was cached does not change that slot.
\* The step is one of goroutine p (every statement moves pc or a loop index).
Acts(p) == pc'[p] # pc[p] \/ idx'[p] # idx[p]
C8_FillOnce ==
    [][\A p \in Procs : Acts(p) =>
          \A i \in Inst, k \in Kinds :
              <<i, k>> \in seen[p] => Slot(k)'[i] = Slot(k)[i]]_vars

\* C9: when every goroutine has made one first-time call of the same
\* accessor, each with its own resolution, the slot holds the result of one
\* of those resolutions.
C9_OneWritersResult ==
    \A k \in Kinds, i \in Inst :
        (/\ ~crashed
         /\ \A p \in Procs :
               /\ pc[p] = "idle"
               /\ Len(calls[p]) = 1
               /\ calls[p][1].op = k
               /\ calls[p][1].inst = i
               /\ Succeeded(calls[p][1].trace, k))
            => \E p \in Procs :
                  LET r == Resolutions(calls[p][1].trace, k) IN
                  IF k = "PTR"
                  THEN ptrRecords[i].elems = Flatten([n \in DOMAIN r |-> r[n].val])
                  ELSE IsResult(k, Slot(k)[i], r[1].val)

\* C10: after an address resolution that succeeds with an empty list the
\* address slot is cached, and later GetARecords calls make no resolver call.
C10_EmptyAddressListIsCached ==
    \A p \in Procs : \A n \in DOMAIN calls[p] :
        LET c == calls[p][n] IN
        (c.op = "A" /\ Succeeded(c.trace, "A") /\ c.trace[1].val = <<>>) =>
            /\ ~c.ret.isnil
            /\ \A m \in DOMAIN calls[p] :
                  (m > n /\ calls[p][m].op = "A" /\ calls[p][m].inst = c.inst)
                      => calls[p][m].trace = <<>>

\* C11: GetPtrRecords is in one of its reverse-lookup loops only after it
\* invoked the address accessor or found the address slot cached, and every
\* reverse lookup it is about to make is for an address the address slot
\* holds at that moment.
LookLabels == {"P_look1", "P_look2"}
LoopLabels == {"P_range1", "P_look1", "P_store1", "P_range2", "P_look2", "P_store2"}
Last(s) == s[Len(s)]
C11_AddressesBeforePointers ==
    \A p \in Procs :
        /\ pc[p] \in {"P_range1", "P_look1", "P_store1"} =>
               Last(invoked[p]) = Invokes("PTR", "A")
        /\ pc[p] \in LoopLabels =>
               (Last(invoked[p]) = Invokes("PTR", "A") \/ ~aRecords[recv[p]].isnil)
        /\ pc[p] \in LookLabels =>
               /\ ~aRecords[recv[p]].isnil
               /\ rng[p][idx[p]] \in Range(aRecords[recv[p]].elems)

\* A reverse lookup is about to be made for an address that this
\* GetPtrRecords call fetched itself, the slot having grown since.
C11_Witness ==
    \E p \in Procs :
        /\ pc[p] = "P_look1"
        /\ <<recv[p], "A">> \notin seen[p]
        /\ Succeeded(trace[p], "A")
        /\ Len(aRecords[recv[p]].elems) > Len(rng[p])

\* C12: the calls GetAllRecords itself makes are, in order, the accessors of
\* A, CNAME, MX, NS, PTR, TXT, each once when it returns, and under each key
\* it stores what the accessor of that key returned.
SixInOrder == <<[key |-> "A records", kind |-> "A"], [key |-> "CNAME records", kind |-> "CNAME"],
                [key |-> "MX records", kind |-> "MX"], [key |-> "NS records", kind |-> "NS"],
                [key |-> "PTR records", kind |-> "PTR"], [key |-> "TXT records", kind |-> "TXT"]>>
\* The methods called from method `by` in the call history t, in order.
CalledBy(t, by) ==
    LET d == SelectSeq(t, LAMBDA e : e.by = by) IN [n \in DOMAIN d |-> d[n].method]
C13_NoCallIsStuck ==
    (\E p \in Procs : pc[p] # "idle") => ENABLED Next

\* C14: no step changes a domain; a step of a call changes no slot of an
\* instance other than the call's receiver; a statement of the accessor of
\* kind K changes no slot but K's; a per-kind accessor call changes no slot
\* but its own, a GetPtrRecords call none but the pointer and address slots.
WriteKind(l) ==
    CASE l = "A_write" -> "A"
      [] l = "C_write" -> "CNAME"
      [] l \in {"M_make", "M_fill"} -> "MX"
      [] l \in {"N_make", "N_fill"} -> "NS"
      [] l \in {"P_store1", "P_store2"} -> "PTR"
      [] l = "T_write" -> "TXT"
      [] OTHER -> "none"
\* The slots a call of method m may change.
Owned(m) ==
    CASE m \in PerKind -> {m}
      [] m = "PTR" -> {"PTR", "A"}
      [] OTHER -> Kinds
C14_Frame ==
    [][/\ domain' = domain
       /\ \A p \in Procs : Acts(p) =>
              \A i \in Inst, k \in Kinds :
                  Slot(k)'[i] # Slot(k)[i] =>
                      /\ i = recv[p]
                      /\ k = WriteKind(pc[p])
                      /\ k \in Owned(top[p])]_vars

\* A GetMxRecords call on the second instance and a GetPtrRecords call on
\* the first have filled their slots, and no other slot is filled.
C14_Witness ==
    /\ filled = {<<2, "MX">>, <<1, "A">>, <<1, "PTR">>}
    /\ \A p \in Procs : pc[p] = "idle"
    /\ \A k \in Kinds \ {"MX"} : NotCached(k, Slot(k)[2])
    /\ \A k \in Kinds \ {"A", "PTR"} : NotCached(k, Slot(k)[1])
    /\ \E p \in Procs : Len(calls[p]) = 1 /\ calls[p][1].op = "PTR"

\* C15: the command-line program calls an accessor only when the search type
\* is one of a, all, cname, mx, ns, ptr, txt and a domain was given, and
\* otherwise ends having printed the usage message and called nothing;
\* isValidSearchType is true for exactly those seven search types.
SevenTypes == {"a", "all", "cname", "mx", "ns", "ptr", "txt"}
C15_UsageUnlessTypeAndDomain ==
    /\ \A s \in SearchArgs : isValidSearchType(s) <=> s \in SevenTypes
    /\ top[1] # "none" => (cli.searchType \in SevenTypes /\ cli.domain # "")
    /\ (cli.pc = "exit" /\ (cli.searchType \notin SevenTypes \/ cli.domain = "")) =>
           (cli.out = "usage" /\ top[1] = "none")

\* C16: a goroutine about to execute mutex.Unlock() is the one that locked
\* the mutex and still holds it: the mutex is never unlocked while it is free
\* or held by another goroutine.
UnlockLabels == {"A_unlock", "C_unlock", "M_unlock", "N_unlock", "T_unlock"}
C16_UnlockByHolder ==
    \A p \in Procs : (~crashed /\ pc[p] \in UnlockLabels) => mutex = p

\* C17: in a GetAllRecords call on a fresh instance the CNAME, MX, NS and
\* TXT resolvers are called once each and the address resolver once or
\* twice; GetAllRecords' own GetARecords call makes the first address
\* resolution, and a second one is made only by the GetARecords call inside
\* GetPtrRecords, and only when the first left the address slot not cached.
OnceKinds == {"CNAME", "MX", "NS", "TXT"}
PtrCalls(p, i) == { n \in DOMAIN calls[p] : calls[p][n].op = "PTR" /\ calls[p][n].inst = i }
Newest(S) == CHOOSE n \in S : \A m \in S : m <= n
C18_PtrEmptyRetriedFilledKept ==
    \A p \in Procs :
        /\ (pc[p] = "idle" /\ calls[p] # <<>>) =>
               LET c == Last(calls[p]) IN
               (c.op = "PTR" /\ c.ret.elems = <<>>) => ptrRecords[c.inst].isnil
        /\ (pc[p] = "P_ret" /\ top[p] = "PTR" /\ PtrCalls(p, recv[p]) # {}) =>
               LET c == calls[p][Newest(PtrCalls(p, recv[p]))] IN
               c.ret.elems = <<>> =>
                   /\ <<recv[p], "PTR">> \notin seen[p]
                   /\ \A n \in DOMAIN aRecords[recv[p]].elems :
                          \E e \in Range(Resolutions(trace[p], "PTR")) :
                              e.arg = String(aRecords[recv[p]].elems[n])
        /\ \A n, m \in DOMAIN calls[p] :
               LET c == calls[p][n]
                   d == calls[p][m]
               IN  (/\ n < m
                    /\ c.op = "PTR"
                    /\ d.op = "PTR"
                    /\ d.inst = c.inst
                    /\ c.ret.elems # <<>>)
                       => (d.trace = <<>> /\ d.ret = c.ret)

\* Three GetPtrRecords calls: the first found no address, the second
\* looked up the addresses it fetched, the third returned the cached names.
C18_Witness ==
    \E p \in Procs :
        /\ pc[p] = "idle"
        /\ Len(calls[p]) = 3
        /\ \A n \in 1..3 : calls[p][n].op = "PTR" /\ calls[p][n].inst = 1
        /\ calls[p][1].ret.isnil
        /\ Resolutions(calls[p][2].trace, "PTR") # <<>>
        /\ Len(calls[p][2].ret.elems) >= MaxAddrs
        /\ calls[p][3].trace = <<>>
        /\ calls[p][3].ret = calls[p][2].ret
====
